---- MODULE Spec2Model ----
(***************************************************************************)
(* Model of the Insight-and-Dashboard agent pipeline: schema parsing, KPI  *)
(* proposal, per-KPI data retrieval (a generator), insight generation,     *)
(* visualization, dashboard assembly, and the orchestrator main().         *)
(*                                                                         *)
(* The external collaborators (the generative model, the SQL engine, the   *)
(* numeric libraries, exec of generated code) are the environment: each    *)
(* call's outcome is drawn from a small set with \E.                       *)
(*                                                                         *)
(* The variable entry names the code under execution: the orchestrator     *)
(* ("main") or one agent's public methods driven directly by a caller      *)
(* ("retrieval", "insight", "viz", "dashboard"), as the classes are usable *)
(* on their own (each module carries its own usage example).               *)
(***************************************************************************)
EXTENDS Integers, Sequences, FiniteSets, TLC

VARIABLES
    entry,      \* which code is running: "main" or one agent's caller
    schema,     \* the SchemaParsingAgent: its file's columns, schema, api
    lastTrend,  \* what a caller's last detect_trends call did
    pc,         \* position of the running code
    csvExt,     \* extension of csv_path (mainagent.py:18), lower-cased
    kpis,       \* the value parse_kpi_json returned / the kpis argument
    engine,     \* DataRetrievalAgent.sql_engine is set (TRUE) or None (FALSE)
    genIdx,     \* get_data_for_all_kpis: number of elements of kpis consumed
    genState,   \* generator: "suspended", "done" (StopIteration), "raised"
    yielded,    \* sequence of the (kpi_name, df) pairs the generator yielded
    retrLog,    \* per yielded pair: what get_data_for_kpi did for it
    results,    \* kpi_insights_figures: key -> entry (mainagent.py:58)
    crash,      \* exception that ended the running code ("" when none)
    lastInsight,\* what a caller's last generate_insights_for_kpi call did
    lastViz,    \* what a caller's last create_visualization call did
    calls,      \* SQL-generation calls, SQL executions, other call sites used
    dash,       \* the DashboardAssemblyAgent object and its collaborators
    datetimeCol,\* InsightGenerationAgent.datetime_col is set (TRUE) or None
    db,         \* the in-memory store: engines created, main_table loads
    proposal,   \* the KPI proposal round trip: response kind, model calls
    insights,   \* main's local insights.get('summary') in the loop body
    failures,   \* kinds of failure met for the KPI main is processing
    ncalls      \* number of direct method calls made by the caller so far

vars == <<schema, lastTrend,
          entry, pc, csvExt, kpis, engine, genIdx, genState, yielded, retrLog,
          results, crash, lastInsight, lastViz, calls, dash, datetimeCol, db,
          proposal, insights, failures, ncalls>>

----------------------------------------------------------------------------
(* Bounds of the model.                                                    *)

\* longest KPI list the model returns / a caller passes
MaxKpis == 2
\* most direct method calls a caller makes on one agent object
MaxCalls == 3

----------------------------------------------------------------------------
(* Python / JSON values.                                                   *)

\* marks a dict without the "KPI" key
NoKey == "<no KPI key>"
\* KPI names the model may return
Names == {"A", "B"}
\* default of kpi.get("KPI", "Unnamed_KPI"), dataretrievalagent.py:96
UnnamedKpi == "Unnamed_KPI"
\* default of kpi.get('KPI', 'Unknown'), insightgenerationagent.py:203,248
UnknownKpi == "Unknown"

\* One element of the parsed JSON array: a JSON object (a dict, with or
\* without the "KPI" key) or any other JSON value (string, number, ...).
KpiDict(n) == [isDict |-> TRUE, KPI |-> n]
NonDict == [isDict |-> FALSE, KPI |-> NoKey]
KpiElems == {KpiDict(n) : n \in Names \cup {NoKey}} \cup {NonDict}

\* sequences over S of length at most n
SeqUpTo(S, n) == UNION {[1..k -> S] : k \in 0..n}

\* The Python value json.loads returns, as far as main() looks at it:
\* None, a list, a dict (iterating it gives its keys, strings), an int.
PyNone == [type |-> "None", items |-> <<>>]
PyList(s) == [type |-> "list", items |-> s]
PyDict(nkeys) == [type |-> "dict", items |-> [i \in 1..nkeys |-> NonDict]]
PyInt == [type |-> "int", items |-> <<>>]
KpiLists == {PyList(s) : s \in SeqUpTo(KpiElems, MaxKpis)}
JsonValues == KpiLists \cup {PyNone, PyDict(0), PyDict(1), PyInt}

\* "kpis is not None" in place of truthiness: an empty list passes
TruthyIsNotNone(v) == v.type # "None"

\* Python truthiness of a parsed value (the int is non-zero)
Truthy(v) ==
    CASE v.type = "None" -> FALSE
      [] v.type = "int" -> TRUE
      [] OTHER -> Len(v.items) > 0

\* dict.get("KPI", default)
GetKPI(kpi, default) == IF kpi.KPI = NoKey THEN default ELSE kpi.KPI

----------------------------------------------------------------------------
(* DataRetrievalAgent (dataretrievalagent.py).                             *)

\* The result of one retrieval is "None", "empty" (a table without rows) or
\* "rows" (a table with rows).

\* Outcomes of generate_code_for_kpi: building the prompt raises (', '.join
\* of a Fields value that is no list of strings), the model call raises, or
\* SQL text comes back.
LlmSqlOutcomes == {"prompt_raise", "raise", "sql"}
\* Outcomes of executing the cleaned SQL on the engine
ExecOutcomes == {"raise", "empty", "rows"}

\* generate_code_for_kpi: returns the SQL text or raises; llm counts the
\* model calls made.
generate_code_for_kpi(kpi, llmOut) ==
    IF llmOut = "prompt_raise"
    THEN [raised |-> "TypeError", llm |-> 0]
    ELSE IF llmOut = "raise"
    THEN [raised |-> "ModelError", llm |-> 1]
    ELSE [raised |-> "", llm |-> 1]

\* run_sql executing the query a second time when the first execution
\* raised
run_sql_retry(eng, execOut) ==
    IF ~eng
    THEN [raised |-> "ValueError", exec |-> 0, df |-> "None"]
    ELSE IF execOut = "raise"
         THEN [raised |-> "SQLError", exec |-> 2, df |-> "None"]
         ELSE [raised |-> "", exec |-> 1, df |-> execOut]

\* run_sql: cleans the query, checks the engine, executes once.
run_sql(eng, execOut) ==
    IF ~eng
    THEN [raised |-> "ValueError", exec |-> 0, df |-> "None"]
    ELSE IF execOut = "raise"
         THEN [raised |-> "SQLError", exec |-> 1, df |-> "None"]
         ELSE [raised |-> "", exec |-> 1, df |-> execOut]

\* get_data_for_kpi: generate the SQL, then run it.
get_data_for_kpi(kpi, eng, llmOut, execOut) ==
    LET g == generate_code_for_kpi(kpi, llmOut)
        r == run_sql(eng, execOut)
    IN IF g.raised # ""
       THEN [raised |-> g.raised, llm |-> g.llm, exec |-> 0, df |-> "None"]
       ELSE [raised |-> r.raised, llm |-> g.llm, exec |-> r.exec, df |-> r.df]

\* get_data_for_all_kpis without its try/except: a failed retrieval
\* propagates out of the generator.
GenStepNoTry(v, idx, eng, llmOut, execOut) ==
    IF v.type \in {"None", "int"}
    THEN [state |-> "raised", err |-> "TypeError"]
    ELSE IF idx >= Len(v.items)
    THEN [state |-> "done", err |-> ""]
    ELSE LET kpi == v.items[idx + 1] IN
         IF ~kpi.isDict
         THEN [state |-> "raised", err |-> "AttributeError"]
         ELSE LET kpi_name == GetKPI(kpi, UnnamedKpi)
                  d == get_data_for_kpi(kpi, eng, llmOut, execOut)
              IN IF d.raised # ""
                 THEN [state |-> "raised", err |-> d.raised]
                 ELSE [state |-> "suspended", err |-> "",
                       pair |-> <<kpi_name, d.df>>,
                       log |-> [llm |-> d.llm, exec |-> d.exec,
                                caught |-> ""]]

\* One next() on get_data_for_all_kpis(kpis): the loop body for the next
\* element up to the yield, or the end of the loop.  kpi.get on line 96 is
\* outside the try: on an element that is no dict it raises AttributeError
\* out of the generator.  Iterating an int raises TypeError.
GenStep(v, idx, eng, llmOut, execOut) ==
    IF v.type \in {"None", "int"}
    THEN [state |-> "raised", err |-> "TypeError"]
    ELSE IF idx >= Len(v.items)
    THEN [state |-> "done", err |-> ""]
    ELSE LET kpi == v.items[idx + 1] IN
         IF ~kpi.isDict
         THEN [state |-> "raised", err |-> "AttributeError"]
         ELSE LET kpi_name == GetKPI(kpi, UnnamedKpi)
                  d == get_data_for_kpi(kpi, eng, llmOut, execOut)
              IN [state |-> "suspended", err |-> "",
                  pair |-> <<kpi_name, IF d.raised # "" THEN "None" ELSE d.df>>,
                  log |-> [llm |-> d.llm, exec |-> d.exec, caught |-> d.raised]]

----------------------------------------------------------------------------
(* InsightGenerationAgent.generate_insights_for_kpi                        *)
(* (insightgenerationagent.py).                                            *)

\* The steps of the per-KPI computation, in the order the code runs them.
\* generate_textual_insight is two steps: building the prompt, then the
\* model call.
InsightSteps ==
    <<"descriptive_stats", "categorical_summary", "trends",
      "correlation_matrix", "anomaly_detection", "summary_prompt",
      "summary_llm">>
StepNames == {InsightSteps[i] : i \in DOMAIN InsightSteps}
StepPos(s) == CHOOSE i \in DOMAIN InsightSteps : InsightSteps[i] = s
\* keys of the full bundle, lines 236-244
BundleKeys ==
    {"descriptive_stats", "categorical_summary", "trends",
     "correlation_matrix", "anomalies", "clusters", "summary"}
\* where the environment makes the computation raise ("none": nowhere)
FailPoints == StepNames \cup {"none"}

\* generate_insights_for_kpi without the try/except of lines 206-249: an
\* exception of a step leaves the method.
generate_insights_for_kpi_no_try(kpi, data, dtCol, hasDt, failAt) ==
    IF data = "empty"
    THEN [keys |-> {"summary"},
          summary |-> [kind |-> "no_data", kpi |-> GetKPI(kpi, UnknownKpi),
                       reason |-> ""],
          ran |-> {}, llm |-> 0, raised |-> ""]
    ELSE LET planned == IF dtCol /\ hasDt THEN StepNames
                        ELSE StepNames \ {"trends"}
             fail == IF failAt \in planned THEN failAt ELSE "none"
             ran == IF fail = "none" THEN planned
                    ELSE {s \in planned : StepPos(s) <= StepPos(fail)}
             llm == IF "summary_llm" \in ran THEN 1 ELSE 0
         IN IF fail = "none"
            THEN [keys |-> BundleKeys,
                  summary |-> [kind |-> "text", kpi |-> "", reason |-> ""],
                  ran |-> ran, llm |-> llm, raised |-> ""]
            ELSE [keys |-> {},
                  summary |-> [kind |-> "", kpi |-> "", reason |-> ""],
                  ran |-> ran, llm |-> llm, raised |-> "InsightError"]

\* generate_insights_for_kpi without the kpi_data.empty check of lines
\* 201-204: the analysis and the summary call run on the empty table.
generate_insights_for_kpi_no_empty_check(kpi, data, dtCol, hasDt, failAt) ==
    LET planned == IF dtCol /\ hasDt THEN StepNames
                   ELSE StepNames \ {"trends"}
        fail == IF failAt \in planned THEN failAt ELSE "none"
        ran == IF fail = "none" THEN planned
               ELSE {s \in planned : StepPos(s) <= StepPos(fail)}
        llm == IF "summary_llm" \in ran THEN 1 ELSE 0
    IN IF fail = "none"
       THEN [keys |-> BundleKeys,
             summary |-> [kind |-> "text", kpi |-> "", reason |-> ""],
             ran |-> ran, llm |-> llm, raised |-> ""]
       ELSE [keys |-> {"summary"},
             summary |-> [kind |-> "failed",
                          kpi |-> GetKPI(kpi, UnknownKpi),
                          reason |-> fail],
             ran |-> ran, llm |-> llm, raised |-> ""]

\* kpi: the KPI dict; data: "empty" or "rows"; hasDt: the datetime column is
\* among the columns of kpi_data; failAt: the step that raises.
\* Returns the bundle's keys and summary, the steps run, the model calls
\* made, and the exception that left the method ("": none).
generate_insights_for_kpi(kpi, data, dtCol, hasDt, failAt) ==
    IF data = "empty"
    THEN [keys |-> {"summary"},
          summary |-> [kind |-> "no_data", kpi |-> GetKPI(kpi, UnknownKpi),
                       reason |-> ""],
          ran |-> {}, llm |-> 0, raised |-> ""]
    ELSE LET planned == IF dtCol /\ hasDt THEN StepNames
                        ELSE StepNames \ {"trends"}
             fail == IF failAt \in planned THEN failAt ELSE "none"
             ran == IF fail = "none" THEN planned
                    ELSE {s \in planned : StepPos(s) <= StepPos(fail)}
             llm == IF "summary_llm" \in ran THEN 1 ELSE 0
         IN IF fail = "none"
            THEN [keys |-> BundleKeys,
                  summary |-> [kind |-> "text", kpi |-> "", reason |-> ""],
                  ran |-> ran, llm |-> llm, raised |-> ""]
            ELSE [keys |-> {"summary"},
                  summary |-> [kind |-> "failed",
                               kpi |-> GetKPI(kpi, UnknownKpi),
                               reason |-> fail],
                  ran |-> ran, llm |-> llm, raised |-> ""]

\* the value of lastInsight before any call
NoInsight ==
    [keys |-> {}, summary |-> [kind |-> "", kpi |-> "", reason |-> ""],
     ran |-> {}, llm |-> 0, raised |-> "", data |-> "",
     kpi |-> KpiDict(NoKey), hasDt |-> FALSE, failAt |-> "none",
     called |-> FALSE]

----------------------------------------------------------------------------
(* InsightGenerationAgent.detect_trends (insightgenerationagent.py:41-69). *)
(* Values are integers and the means and the slope are exact fractions.    *)

\* most rows of a modelled table passed to detect_trends
MaxRows == 3
\* largest rolling window a caller passes
MaxWindow == 2

\* a cell: a value, or missing (NaN / NaT)
Cell(v) == [isNa |-> FALSE, val |-> v]
Missing == [isNa |-> TRUE, val |-> 0]
\* the datetime column holds ranks of distinct times, the field 0 or 1
TimeCells == {Missing} \cup {Cell(t) : t \in 1..MaxRows}
FieldCells == {Missing, Cell(0), Cell(1)}
TrendRows == [dt : TimeCells, v : FieldCells]
\* tables whose times are pairwise distinct
TrendTables ==
    {s \in SeqUpTo(TrendRows, MaxRows) :
        \A i, j \in 1..Len(s) :
            (i # j /\ ~s[i].dt.isNa) => s[i].dt # s[j].dt}

\* DataFrame.dropna(), line 55: the rows without a missing cell
dropna(rows) ==
    LET Complete(r) == ~r.dt.isNa /\ ~r.v.isNa
    IN SelectSeq(rows, Complete)

\* DataFrame.sort_values(datetime_col), line 55, on rows of distinct times
sort_values(rows) ==
    [i \in 1..Len(rows) |->
        CHOOSE r \in {rows[k] : k \in 1..Len(rows)} :
            Cardinality({k \in 1..Len(rows) :
                            rows[k].dt.val < r.dt.val}) = i - 1]

RECURSIVE SumTo(_, _, _)
\* f[a] + ... + f[b]
SumTo(f, a, b) == IF a > b THEN 0 ELSE f[a] + SumTo(f, a + 1, b)

\* rolling(window).mean().dropna(), line 59, times window: the sums of the
\* full windows (the first window - 1 means are NaN and dropped)
rolling_sums(vals, window) ==
    IF Len(vals) < window THEN <<>>
    ELSE [k \in 1..(Len(vals) - window + 1) |->
            SumTo(vals, k, k + window - 1)]

\* np.polyfit(x, y, 1)[0], line 65, for x = 0..m-1 and y = sums / window:
\* the least-squares slope as numerator and (positive) denominator
polyfit_slope(sums, window) ==
    LET m == Len(sums)
        xs == [k \in 1..m |-> k - 1]
        xy == [k \in 1..m |-> (k - 1) * sums[k]]
        xx == [k \in 1..m |-> (k - 1) * (k - 1)]
        sx == SumTo(xs, 1, m)
    IN [num |-> m * SumTo(xy, 1, m) - sx * SumTo(sums, 1, m),
        den |-> window * (m * SumTo(xx, 1, m) - sx * sx)]

\* what detect_trends returns when it returns None
NoTrend ==
    [isNone |-> TRUE, trend |-> "", slope |-> [num |-> 0, den |-> 1],
     kept |-> 0]

\* the checks of lines 48-53, one outcome per disjunct that can hold
TrendPre(dtCol, pre) == IF ~dtCol THEN "no_datetime_col" ELSE pre

\* detect_trends with "increasing" for every slope that is not negative
detect_trends_no_stable(dtCol, pre, rows, window) ==
    IF TrendPre(dtCol, pre) # "ok" THEN NoTrend
    ELSE LET ts == sort_values(dropna(rows)) IN
         IF Len(ts) < window + 1 THEN [NoTrend EXCEPT !.kept = Len(ts)]
         ELSE LET rolling == rolling_sums([i \in 1..Len(ts) |-> ts[i].v.val],
                                          window)
              IN IF Len(rolling) < 2 THEN [NoTrend EXCEPT !.kept = Len(ts)]
                 ELSE LET slope == polyfit_slope(rolling, window)
                      IN [isNone |-> FALSE,
                          trend |-> IF slope.num >= 0 THEN "increasing"
                                    ELSE "decreasing",
                          slope |-> slope, kept |-> Len(ts)]

\* detect_trends, lines 41-69.  kept is len(ts), the rows left by dropna.
detect_trends(dtCol, pre, rows, window) ==
    IF TrendPre(dtCol, pre) # "ok" THEN NoTrend
    ELSE LET ts == sort_values(dropna(rows)) IN
         IF Len(ts) < window + 1 THEN [NoTrend EXCEPT !.kept = Len(ts)]
         ELSE LET rolling == rolling_sums([i \in 1..Len(ts) |-> ts[i].v.val],
                                          window)
              IN IF Len(rolling) < 2 THEN [NoTrend EXCEPT !.kept = Len(ts)]
                 ELSE LET slope == polyfit_slope(rolling, window)
                      IN [isNone |-> FALSE,
                          trend |-> IF slope.num > 0 THEN "increasing"
                                    ELSE IF slope.num < 0 THEN "decreasing"
                                    ELSE "stable",
                          slope |-> slope, kept |-> Len(ts)]

\* the value of lastTrend before any call
NoTrendCall ==
    [called |-> FALSE, pre |-> "", window |-> 0, res |-> NoTrend]

----------------------------------------------------------------------------
(* VisualizationAgent (visualizationagent.py).                             *)

\* chart types a suggestion may name
ChartSpecs == {"bar", "line"}
\* longest JSON array of chart suggestions the model returns
MaxSuggestions == 2

\* Outcomes of the chart-suggestion model call: the call raises, the text is
\* no JSON, or it is JSON: one object, an array, or another value.
SuggOutcomes ==
    {[kind |-> "raise", specs |-> <<>>], [kind |-> "invalid", specs |-> <<>>],
     [kind |-> "scalar", specs |-> <<>>]}
    \cup {[kind |-> "object", specs |-> <<c>>] : c \in ChartSpecs}
    \cup {[kind |-> "array", specs |-> s] :
            s \in SeqUpTo(ChartSpecs, MaxSuggestions)}

\* Outcomes of the code-generation round trip: the model call raises; or the
\* snippet runs under exec and raises, leaves no fig, leaves a fig that is
\* no figure, or leaves a figure.
CodeOutcomes == {"raise", "exec_raise", "no_fig", "wrong_type", "fig"}

\* suggest_chart_types, lines 53-73: the list of suggestions or None.
suggest_chart_types(sugg) ==
    CASE sugg.kind = "raise" ->
            [raised |-> "ModelError", isNone |-> TRUE, list |-> <<>>]
      [] sugg.kind \in {"object", "array"} ->
            [raised |-> "", isNone |-> FALSE, list |-> sugg.specs]
      [] OTHER -> [raised |-> "", isNone |-> TRUE, list |-> <<>>]

\* generate_plotly_code without the try/except around exec: an exception
\* of the generated snippet propagates.
generate_plotly_code_no_try(kpi_name, summary, codeOut) ==
    LET request == [kpi |-> kpi_name, summary |-> summary, chart |-> ""] IN
    IF codeOut = "raise"
    THEN [raised |-> "ModelError", fig |-> "None", request |-> request,
          execs |-> 0]
    ELSE IF codeOut = "exec_raise"
    THEN [raised |-> "ExecError", fig |-> "None", request |-> request,
          execs |-> 1]
    ELSE [raised |-> "", fig |-> IF codeOut = "fig" THEN "fig" ELSE "None",
          request |-> request, execs |-> 1]

\* generate_plotly_code returning whatever the snippet bound to fig, without
\* the test "fig and hasattr(fig, 'show')".
generate_plotly_code_no_validation(kpi_name, summary, codeOut) ==
    LET request == [kpi |-> kpi_name, summary |-> summary, chart |-> ""] IN
    IF codeOut = "raise"
    THEN [raised |-> "ModelError", fig |-> "None", request |-> request,
          execs |-> 0]
    ELSE [raised |-> "",
          fig |-> IF codeOut \in {"fig", "wrong_type"} THEN "fig"
                  ELSE "None",
          request |-> request, execs |-> 1]

\* generate_plotly_code, lines 84-159.  request is what the prompt is
\* built from: the KPI name and the insight summary (the description and
\* the data sample are not modelled apart), and the chart suggestion it
\* names: none, the method has no parameter for one.
generate_plotly_code(kpi_name, summary, codeOut) ==
    LET request == [kpi |-> kpi_name, summary |-> summary, chart |-> ""] IN
    IF codeOut = "raise"
    THEN [raised |-> "ModelError", fig |-> "None", request |-> request,
          execs |-> 0]
    ELSE [raised |-> "", fig |-> IF codeOut = "fig" THEN "fig" ELSE "None",
          request |-> request, execs |-> 1]

\* the request field when no code-generation request was made
NoRequest == [kpi |-> "", summary |-> "", chart |-> ""]

\* create_visualization testing "chart_suggestions is None" where the code
\* tests "not chart_suggestions": an empty list reaches chart_suggestions[0].
create_visualization_none_check(kpi_name, summary, sugg, codeOut) ==
    LET cs == suggest_chart_types(sugg) IN
    IF cs.raised # ""
    THEN [raised |-> cs.raised, fig |-> "None", suggCalls |-> 1,
          codeCalls |-> 0, execs |-> 0, request |-> NoRequest, first |-> ""]
    ELSE IF cs.isNone
    THEN [raised |-> "", fig |-> "None", suggCalls |-> 1,
          codeCalls |-> 0, execs |-> 0, request |-> NoRequest, first |-> ""]
    ELSE IF Len(cs.list) = 0
    THEN [raised |-> "IndexError", fig |-> "None", suggCalls |-> 1,
          codeCalls |-> 0, execs |-> 0, request |-> NoRequest, first |-> ""]
    ELSE LET first_suggestion == cs.list[1]
             g == generate_plotly_code(kpi_name, summary, codeOut)
         IN [raised |-> g.raised, fig |-> g.fig, suggCalls |-> 1,
             codeCalls |-> 1, execs |-> g.execs, request |-> g.request,
             first |-> first_suggestion]

\* create_visualization, lines 180-190.
create_visualization(kpi_name, summary, sugg, codeOut) ==
    LET cs == suggest_chart_types(sugg) IN
    IF cs.raised # ""
    THEN [raised |-> cs.raised, fig |-> "None", suggCalls |-> 1,
          codeCalls |-> 0, execs |-> 0, request |-> NoRequest, first |-> ""]
    ELSE IF cs.isNone \/ Len(cs.list) = 0
    THEN [raised |-> "", fig |-> "None", suggCalls |-> 1,
          codeCalls |-> 0, execs |-> 0, request |-> NoRequest, first |-> ""]
    ELSE LET first_suggestion == cs.list[1]
             g == generate_plotly_code(kpi_name, summary, codeOut)
         IN [raised |-> g.raised, fig |-> g.fig, suggCalls |-> 1,
             codeCalls |-> 1, execs |-> g.execs, request |-> g.request,
             first |-> first_suggestion]

\* the value of lastViz before any call
NoViz ==
    [raised |-> "", fig |-> "None", suggCalls |-> 0, codeCalls |-> 0,
     execs |-> 0, request |-> NoRequest, first |-> "",
     sugg |-> [kind |-> "", specs |-> <<>>], codeOut |-> "",
     called |-> FALSE]

----------------------------------------------------------------------------
(* DashboardAssemblyAgent (dashboardassemblyagent.py).                     *)

\* keys kpi_insights_figures can have: the names the generator yields
Keys == Names \cup {UnnamedKpi}
NoEntry == [present |-> FALSE, summary |-> "", fig |-> "None"]
Entry(s, f) == [present |-> TRUE, summary |-> s, fig |-> f]
EmptyMapping == [k \in Keys |-> NoEntry]

\* _generate_kpi_card, lines 41-87: heading, insight panel, chart or
\* placeholder
generate_kpi_card(kpi_name, e) ==
    [shown |-> TRUE, title |-> kpi_name, insight |-> e.summary,
     chart |-> IF e.fig = "fig" THEN "graph" ELSE "placeholder"]
NoCard == [shown |-> FALSE, title |-> "", insight |-> "", chart |-> ""]

\* __init__, lines 19-21, with the timer thread and the listener idle
NewDashboard ==
    [setupLayoutDone |-> FALSE, layout |-> [k \in Keys |-> NoCard],
     timers |-> 0, timersStarted |-> 0, browserOpens |-> 0,
     listener |-> "off", listens |-> 0, runResult |-> "", runs |-> 0,
     refused |-> 0, openedBeforeListen |-> FALSE]

\* build_dashboard_layout, lines 105-117
build_dashboard_layout(d, mapping) ==
    [d EXCEPT !.layout = [k \in Keys |->
                            IF mapping[k].present
                            THEN generate_kpi_card(k, mapping[k])
                            ELSE NoCard],
              !.setupLayoutDone = TRUE]

\* run_dashboard without the check of lines 127-128
run_dashboard_no_check(d, open_browser) ==
    [d EXCEPT !.runResult = "app_run", !.runs = @ + 1,
              !.timers = IF open_browser THEN @ + 1 ELSE @,
              !.timersStarted = IF open_browser THEN @ + 1 ELSE @]

\* run_dashboard up to the call of app.run, lines 127-135
run_dashboard(d, open_browser) ==
    IF ~d.setupLayoutDone
    THEN [d EXCEPT !.runResult = "RuntimeError", !.runs = @ + 1,
                   !.refused = @ + 1]
    ELSE [d EXCEPT !.runResult = "app_run", !.runs = @ + 1,
                   !.timers = IF open_browser THEN @ + 1 ELSE @,
                   !.timersStarted = IF open_browser THEN @ + 1 ELSE @]

----------------------------------------------------------------------------
(* LLMBasedKPIIdentificationAgent (KPIidentificationagent.py).             *)

\* Outcomes of the proposal model call: it raises, or a text comes back
\* that is no JSON, or that is the JSON text of a value.
KpiResponses ==
    {[kind |-> "raise", value |-> PyNone],
     [kind |-> "invalid", value |-> PyNone]}
    \cup {[kind |-> "json", value |-> v] : v \in JsonValues}

\* parse_kpi_json without the except clause: JSONDecodeError propagates
parse_kpi_json_no_except(text) ==
    IF text.kind = "json"
    THEN [raised |-> "", value |-> text.value]
    ELSE [raised |-> "JSONDecodeError", value |-> PyNone]

\* parse_kpi_json, lines 97-104: json.loads, None on JSONDecodeError
parse_kpi_json(text) ==
    IF text.kind = "json"
    THEN [raised |-> "", value |-> text.value]
    ELSE [raised |-> "", value |-> PyNone]

\* suggest_kpis, lines 106-109: one model call, then the parse
suggest_kpis(resp) ==
    IF resp.kind = "raise"
    THEN [raised |-> "ModelError", value |-> PyNone, llm |-> 1]
    ELSE LET p == parse_kpi_json(resp)
         IN [raised |-> p.raised, value |-> p.value, llm |-> 1]

----------------------------------------------------------------------------
(* SchemaParsingAgent (SchemaParsingAgent.py).                             *)

\* most columns of a modelled input file
MaxFields == 2

\* the character str.lower() gives for a character
LowerChar(c) ==
    CASE c = "I" -> "i"
      [] c = "D" -> "d"
      [] c = "X" -> "x"
      [] OTHER -> c
\* str.lower()
lower(s) == [i \in 1..Len(s) |-> LowerChar(s[i])]
\* str.endswith(suffix)
endswith(s, suffix) ==
    /\ Len(s) >= Len(suffix)
    /\ SubSeq(s, Len(s) - Len(suffix) + 1, Len(s)) = suffix

\* Column labels of the loaded DataFrame.  read_csv labels every column
\* with a str; read_excel labels a column whose header cell holds a number
\* with that number.  chars spells the label.
StrLabel(chars) == [isStr |-> TRUE, chars |-> chars]
IntLabel == [isStr |-> FALSE, chars |-> <<"7">>]
Labels ==
    {StrLabel(<<"i", "d">>), StrLabel(<<"x", "_", "I", "D">>),
     StrLabel(<<"x", "i", "d">>), StrLabel(<<"i", "d", "x">>), IntLabel}

\* dtypes of the columns
Dtypes == {"int64", "datetime64[ns]", "object", "timedelta64[ns]"}

\* infer_field_type, lines 4-12
infer_field_type(dtype) ==
    IF dtype = "int64" THEN "numerical"
    ELSE IF dtype = "datetime64[ns]" THEN "datetime"
    ELSE IF dtype = "object" THEN "categorical"
    ELSE "unknown"

\* the columns a file can have: distinct labels, each with a dtype
Columns == [label : Labels, dtype : Dtypes]
ColumnLists ==
    {s \in SeqUpTo(Columns, MaxFields) :
        \A i, j \in 1..Len(s) : i # j => s[i].label # s[j].label}

\* the column lists the input file of main() is drawn from
MainColumnLists ==
    {<<[label |-> StrLabel(<<"x", "_", "I", "D">>), dtype |-> "int64"],
       [label |-> StrLabel(<<"i", "d", "x">>), dtype |-> "object"]>>,
     <<[label |-> IntLabel, dtype |-> "int64"]>>}

\* the column lists a file with this extension can be loaded as: read_csv
\* gives str labels only
FileColumns(ext, lists) ==
    {s \in lists :
        ext = ".csv" => \A i \in 1..Len(s) : s[i].label.isStr}

\* parse_schema, lines 30-41: one field dict per column, without a role
parse_schema(columns) ==
    [i \in 1..Len(columns) |->
        [field_name |-> columns[i].label,
         dtype |-> columns[i].dtype,
         semantic_type |-> infer_field_type(columns[i].dtype),
         role |-> ""]]

\* lines 45-50: the role of one field whose name is a str
RoleOf(field) ==
    LET name == field.field_name.chars IN
    IF lower(name) = <<"i", "d">> \/ endswith(lower(name), <<"_", "i", "d">>)
    THEN "identifier"
    ELSE IF field.semantic_type = "numerical" THEN "metric"
    ELSE "dimension"

\* annotate_schema, lines 42-50: the loop stops with AttributeError at the
\* first field whose name has no lower(); the fields before it keep the
\* role they were given.
annotate_schema(fields) ==
    LET bad == {i \in 1..Len(fields) : ~fields[i].field_name.isStr}
        stop == IF bad = {} THEN Len(fields) + 1
                ELSE CHOOSE i \in bad : \A j \in bad : i <= j
    IN [fields |-> [i \in 1..Len(fields) |->
                      IF i < stop
                      THEN [fields[i] EXCEPT !.role = RoleOf(fields[i])]
                      ELSE fields[i]],
        raised |-> IF bad = {} THEN "" ELSE "AttributeError"]

\* get_fields_by_role, lines 56-57
get_fields_by_role(fields, role) ==
    LET HasRole(f) == f.role = role
        sel == SelectSeq(fields, HasRole)
    IN [i \in 1..Len(sel) |-> sel[i].field_name]

\* schema_api, lines 55-63
schema_api(fields) ==
    [all_fields |-> [i \in 1..Len(fields) |-> fields[i].field_name],
     metrics |-> get_fields_by_role(fields, "metric"),
     dimensions |-> get_fields_by_role(fields, "dimension"),
     identifiers |-> get_fields_by_role(fields, "identifier"),
     called |-> TRUE]

\* no schema_api() result yet
NoApi ==
    [all_fields |-> <<>>, metrics |-> <<>>, dimensions |-> <<>>,
     identifiers |-> <<>>, called |-> FALSE]

\* a SchemaParsingAgent not constructed yet, for a file with these columns;
\* apiAt tells whether schema_api() was last called before ("parsed") or
\* after ("annotated") annotate_schema()
NewSchema(columns) ==
    [columns |-> columns, loaded |-> FALSE, parsed |-> FALSE,
     annotated |-> FALSE, fields |-> <<>>, raised |-> "", api |-> NoApi,
     apiAt |-> ""]

----------------------------------------------------------------------------
(* The orchestrator main() (mainagent.py) and the callers of the agents.   *)

\* extensions of csv_path: two that _load_data supports and two it does
\* not, the one of the path "" of line 18 among them
Extensions == {".csv", ".xlsx", ".txt", ""}
\* _load_data taking every extension but the empty one as a table file
SupportedNonEmpty(ext) == ext # ""
\* SchemaParsingAgent._load_data, SchemaParsingAgent.py:22-28
Supported(ext) == ext \in {".csv", ".xls", ".xlsx"}

\* call sites besides the SQL ones: the summary, suggestion and
\* code-generation model calls and the exec of the generated snippet
Sites(insLlm, suggCalls, codeCalls, execs) ==
    (IF insLlm > 0 THEN {"insight_llm"} ELSE {})
    \cup (IF suggCalls > 0 THEN {"suggestion_llm"} ELSE {})
    \cup (IF codeCalls > 0 THEN {"code_llm"} ELSE {})
    \cup (IF execs > 0 THEN {"exec"} ELSE {})
NoCalls == [sqlgen |-> 0, sqlexec |-> 0, sites |-> {}]
NoProposal == [text |-> "", llm |-> 0, returned |-> FALSE]
NoDb == [engines |-> 0, loads |-> 0]

\* next(...) on line 68: the first element of kpis whose KPI equals
\* kpi_name; item.get raises on an element that is no dict.
KpiMeta(items, kpi_name) ==
    LET hits == {i \in DOMAIN items :
                    ~items[i].isDict \/ items[i].KPI = kpi_name}
    IN IF hits = {}
       THEN [raised |-> "", found |-> FALSE, idx |-> 0]
       ELSE LET m == CHOOSE i \in hits : \A j \in hits : i <= j
            IN IF ~items[m].isDict
               THEN [raised |-> "AttributeError", found |-> FALSE, idx |-> 0]
               ELSE [raised |-> "", found |-> TRUE, idx |-> m]

\* State common to every entry point before it runs.
Blank ==
    /\ genIdx = 0
    /\ genState = "suspended"
    /\ yielded = <<>>
    /\ retrLog = <<>>
    /\ results = EmptyMapping
    /\ crash = ""
    /\ lastInsight = NoInsight
    /\ lastViz = NoViz
    /\ lastTrend = NoTrendCall
    /\ calls = NoCalls
    /\ dash = NewDashboard
    /\ db = NoDb
    /\ proposal = NoProposal
    /\ insights = ""
    /\ failures = {}
    /\ ncalls = 0

\* main() about to run with some csv_path
InitMain ==
    /\ entry = "main"
    /\ pc = "parse_schema"
    /\ csvExt \in Extensions
    /\ kpis = PyNone
    /\ engine = FALSE
    /\ datetimeCol = FALSE
    /\ schema = NewSchema(<<>>)
    /\ Blank

\* a caller about to iterate get_data_for_all_kpis(kpis) on an agent built
\* with or without an engine
InitRetrieval ==
    /\ entry = "retrieval"
    /\ pc = "loop_next"
    /\ csvExt = ".csv"
    /\ kpis \in KpiLists
    /\ engine \in BOOLEAN
    /\ datetimeCol = FALSE
    /\ schema = NewSchema(<<>>)
    /\ Blank

\* a caller about to call generate_insights_for_kpi on an agent built with
\* or without a datetime column
InitInsight ==
    /\ entry = "insight"
    /\ pc = "call"
    /\ csvExt = ".csv"
    /\ kpis = PyNone
    /\ engine = FALSE
    /\ datetimeCol \in BOOLEAN
    /\ schema = NewSchema(<<>>)
    /\ Blank

\* a caller holding a new DashboardAssemblyAgent
InitDashboard ==
    /\ entry = "dashboard"
    /\ pc = "call"
    /\ csvExt = ".csv"
    /\ kpis = PyNone
    /\ engine = FALSE
    /\ datetimeCol = FALSE
    /\ schema = NewSchema(<<>>)
    /\ Blank

\* a caller holding a VisualizationAgent
InitViz ==
    /\ entry = "viz"
    /\ pc = "call"
    /\ csvExt = ".csv"
    /\ kpis = PyNone
    /\ engine = FALSE
    /\ datetimeCol = FALSE
    /\ schema = NewSchema(<<>>)
    /\ Blank

\* a caller about to construct a SchemaParsingAgent on a file
InitSchema ==
    /\ entry = "schema"
    /\ pc = "construct"
    /\ csvExt \in Extensions
    /\ \E cols \in FileColumns(csvExt, ColumnLists) :
         schema = NewSchema(IF Supported(csvExt) THEN cols ELSE <<>>)
    /\ kpis = PyNone
    /\ engine = FALSE
    /\ datetimeCol = FALSE
    /\ Blank

\* a caller about to call detect_trends on an agent built with or without
\* a datetime column
InitTrend ==
    /\ entry = "trend"
    /\ pc = "call"
    /\ csvExt = ".csv"
    /\ kpis = PyNone
    /\ engine = FALSE
    /\ datetimeCol \in BOOLEAN
    /\ schema = NewSchema(<<>>)
    /\ Blank

Init ==
    \/ InitMain \/ InitRetrieval \/ InitInsight \/ InitViz
    \/ InitDashboard \/ InitSchema \/ InitTrend

----------------------------------------------------------------------------
(* Steps of main().                                                        *)

\* lines 17-24: SchemaParsingAgent(csv_path) loads the file by extension,
\* then parse_schema(), annotate_schema(), schema_api()
MainParseSchema ==
    /\ entry = "main" /\ pc = "parse_schema"
    /\ \E readOk \in BOOLEAN, cols \in FileColumns(csvExt, MainColumnLists) :
         IF ~Supported(csvExt)
         THEN crash' = "ValueError" /\ pc' = "crashed" /\ schema' = schema
         ELSE IF ~readOk
         THEN crash' = "ReadError" /\ pc' = "crashed" /\ schema' = schema
         ELSE LET a == annotate_schema(parse_schema(cols)) IN
              /\ schema' = [columns |-> cols, loaded |-> TRUE,
                            parsed |-> TRUE, annotated |-> TRUE,
                            fields |-> a.fields, raised |-> a.raised,
                            api |-> IF a.raised = ""
                                    THEN schema_api(a.fields) ELSE NoApi,
                            apiAt |-> IF a.raised = ""
                                      THEN "annotated" ELSE ""]
              /\ crash' = a.raised
              /\ pc' = IF a.raised = "" THEN "suggest_kpis" ELSE "crashed"
    /\ UNCHANGED <<lastTrend,
                   entry, csvExt, kpis, engine, genIdx, genState, yielded,
                   retrLog, results, lastInsight, lastViz, calls, dash,
                   datetimeCol, db, proposal, insights, failures, ncalls>>

\* lines 26-33: suggest_kpis(), return when it gave nothing
MainSuggestKpis ==
    /\ entry = "main" /\ pc = "suggest_kpis"
    /\ \E resp \in KpiResponses :
         LET r == suggest_kpis(resp) IN
         /\ proposal' = [text |-> resp.kind, llm |-> proposal.llm + r.llm,
                         returned |-> r.raised = ""]
         /\ kpis' = r.value
         /\ crash' = r.raised
         /\ pc' = IF r.raised # "" THEN "crashed"
                  ELSE IF ~Truthy(r.value) THEN "done"
                  ELSE "create_db"
    /\ UNCHANGED <<schema, lastTrend,
                   entry, csvExt, engine, genIdx, genState, yielded, retrLog,
                   results, lastInsight, lastViz, calls, dash, datetimeCol,
                   db, insights, failures, ncalls>>

\* lines 35-58 without the to_sql of line 39: the engine is created and
\* handed to the agents, main_table is never filled
MainCreateDbNoLoad ==
    /\ entry = "main" /\ pc = "create_db"
    /\ \E readOk \in BOOLEAN, dt \in BOOLEAN :
         IF ~readOk
         THEN /\ crash' = "ReadError" /\ pc' = "crashed"
              /\ UNCHANGED <<db, engine, datetimeCol, dash>>
         ELSE /\ crash' = crash /\ pc' = "loop_next"
              /\ db' = [engines |-> db.engines + 1, loads |-> db.loads]
              /\ engine' = TRUE
              /\ datetimeCol' = dt
              /\ dash' = NewDashboard
    /\ UNCHANGED <<schema, lastTrend,
                   entry, csvExt, kpis, genIdx, genState, yielded, retrLog,
                   results, lastInsight, lastViz, calls, proposal, insights,
                   failures, ncalls>>

\* lines 35-58: read the file again, fill main_table, build the agents
MainCreateDb ==
    /\ entry = "main" /\ pc = "create_db"
    /\ \E readOk \in BOOLEAN, dt \in BOOLEAN :
         IF ~readOk
         THEN /\ crash' = "ReadError" /\ pc' = "crashed"
              /\ UNCHANGED <<db, engine, datetimeCol, dash>>
         ELSE /\ crash' = crash /\ pc' = "loop_next"
              /\ db' = [engines |-> db.engines + 1, loads |-> db.loads + 1]
              /\ engine' = TRUE
              /\ datetimeCol' = dt
              /\ dash' = NewDashboard
    /\ UNCHANGED <<schema, lastTrend,
                   entry, csvExt, kpis, genIdx, genState, yielded, retrLog,
                   results, lastInsight, lastViz, calls, proposal, insights,
                   failures, ncalls>>

\* One next() on the generator, by main's for loop (line 61) or by another
\* caller iterating it.
GenNext ==
    /\ entry \in {"main", "retrieval"} /\ pc = "loop_next"
    /\ \E llmOut \in LlmSqlOutcomes, execOut \in ExecOutcomes :
         LET g == GenStep(kpis, genIdx, engine, llmOut, execOut) IN
         /\ genState' = g.state
         /\ crash' = g.err
         /\ IF g.state = "suspended"
            THEN /\ genIdx' = genIdx + 1
                 /\ yielded' = Append(yielded, g.pair)
                 /\ retrLog' = Append(retrLog, g.log)
                 /\ calls' = [calls EXCEPT !.sqlgen = @ + g.log.llm,
                                           !.sqlexec = @ + g.log.exec]
                 /\ failures' = IF g.log.caught # "" THEN {"sql"} ELSE {}
                 /\ pc' = IF entry = "main" THEN "loop_body" ELSE "loop_next"
            ELSE /\ UNCHANGED <<genIdx, yielded, retrLog, calls>>
                 /\ failures' = {}
                 /\ pc' = IF g.state = "raised" THEN "crashed"
                          ELSE IF entry = "main" THEN "assemble"
                          ELSE "done"
    /\ insights' = ""
    /\ UNCHANGED <<schema, lastTrend,
                   entry, csvExt, kpis, engine, results, lastInsight, lastViz,
                   dash, datetimeCol, db, proposal, ncalls>>

\* lines 62-75: the loop body for the pair just yielded, up to and
\* including generate_insights_for_kpi
MainInsights ==
    /\ entry = "main" /\ pc = "loop_body"
    /\ LET kpi_name == yielded[Len(yielded)][1]
           df_subset == yielded[Len(yielded)][2]
           meta == KpiMeta(kpis.items, kpi_name)
       IN
       IF df_subset \in {"None", "empty"}
       THEN /\ pc' = "loop_next"
            /\ UNCHANGED <<crash, calls, insights, failures>>
       ELSE IF meta.raised # ""
       THEN /\ pc' = "crashed" /\ crash' = meta.raised
            /\ UNCHANGED <<calls, insights, failures>>
       ELSE IF ~meta.found
       THEN /\ pc' = "loop_next"
            /\ UNCHANGED <<crash, calls, insights, failures>>
       ELSE \E hasDt \in BOOLEAN, failAt \in FailPoints :
            LET ins == generate_insights_for_kpi(kpis.items[meta.idx],
                           df_subset, datetimeCol, hasDt, failAt)
            IN
            /\ calls' = [calls EXCEPT
                           !.sites = @ \cup Sites(ins.llm, 0, 0, 0)]
            /\ insights' = ins.summary.kind
            /\ failures' = IF ins.summary.kind = "failed" \/ ins.raised # ""
                           THEN {"insight"} ELSE {}
            /\ crash' = ins.raised
            /\ pc' = IF ins.raised # "" THEN "crashed" ELSE "loop_viz"
    /\ UNCHANGED <<schema, lastTrend,
                   entry, csvExt, kpis, engine, genIdx, genState, yielded,
                   retrLog, results, lastInsight, lastViz, dash, datetimeCol,
                   db, proposal, ncalls>>

\* lines 77-90: create_visualization and the store into the mapping
MainVisualize ==
    /\ entry = "main" /\ pc = "loop_viz"
    /\ \E sugg \in SuggOutcomes, codeOut \in CodeOutcomes :
         LET kpi_name == yielded[Len(yielded)][1]
             kpi_meta == kpis.items[KpiMeta(kpis.items, kpi_name).idx]
             viz == create_visualization(GetKPI(kpi_meta, kpi_name),
                                         insights, sugg, codeOut)
         IN
         /\ calls' = [calls EXCEPT
                        !.sites = @ \cup Sites(0, viz.suggCalls,
                                               viz.codeCalls, viz.execs)]
         /\ failures' = failures
               \cup (IF sugg.kind = "invalid" THEN {"suggestion"} ELSE {})
               \cup (IF viz.execs > 0 /\ codeOut = "exec_raise"
                     THEN {"chart_code"} ELSE {})
         /\ crash' = viz.raised
         /\ IF viz.raised # ""
            THEN pc' = "crashed" /\ UNCHANGED results
            ELSE /\ pc' = "loop_next"
                 /\ results' = [results EXCEPT
                                  ![kpi_name] = Entry(insights, viz.fig)]
    /\ UNCHANGED <<schema, lastTrend,
                   entry, csvExt, kpis, engine, genIdx, genState, yielded,
                   retrLog, lastInsight, lastViz, dash, datetimeCol, db,
                   proposal, insights, ncalls>>

\* lines 93-99: build the layout and call run_dashboard(open_browser=True),
\* up to its call of app.run; or end with nothing to show
MainAssemble ==
    /\ entry = "main" /\ pc = "assemble"
    /\ IF \E k \in Keys : results[k].present
       THEN LET d == run_dashboard(build_dashboard_layout(dash, results), TRUE)
            IN /\ dash' = d
               /\ pc' = IF d.runResult = "RuntimeError" THEN "crashed"
                        ELSE "app_run"
               /\ crash' = IF d.runResult = "RuntimeError"
                           THEN "RuntimeError" ELSE crash
       ELSE pc' = "done" /\ UNCHANGED <<dash, crash>>
    /\ UNCHANGED <<schema, lastTrend,
                   entry, csvExt, kpis, engine, genIdx, genState, yielded,
                   retrLog, results, lastInsight, lastViz, calls,
                   datetimeCol, db, proposal, insights, failures, ncalls>>

----------------------------------------------------------------------------
(* run_dashboard after its check: the serving thread and the timer thread. *)

\* line 137: app.run binds the port and serves (blocking), or fails to bind
AppRun ==
    /\ pc = "app_run"
    /\ \E bindOk \in BOOLEAN :
         IF bindOk
         THEN /\ dash' = [dash EXCEPT !.listener = "listening",
                                      !.listens = @ + 1,
                                      !.runResult = "serving"]
              /\ pc' = "serving"
              /\ crash' = crash
         ELSE /\ dash' = [dash EXCEPT !.runResult = "OSError"]
              /\ pc' = IF entry = "main" THEN "crashed" ELSE "call"
              /\ crash' = IF entry = "main" THEN "OSError" ELSE crash
    /\ UNCHANGED <<schema, lastTrend,
                   entry, csvExt, kpis, engine, genIdx, genState, yielded,
                   retrLog, results, lastInsight, lastViz, calls,
                   datetimeCol, db, proposal, insights, failures, ncalls>>

\* the server is shut down and app.run returns to run_dashboard's caller
ServerStop ==
    /\ pc = "serving"
    /\ dash' = [dash EXCEPT !.listener = "off", !.runResult = "returned"]
    /\ pc' = IF entry = "main" THEN "done" ELSE "call"
    /\ UNCHANGED <<schema, lastTrend,
                   entry, csvExt, kpis, engine, genIdx, genState, yielded,
                   retrLog, results, crash, lastInsight, lastViz, calls,
                   datetimeCol, db, proposal, insights, failures, ncalls>>

\* lines 130-135: a started threading.Timer expires and calls
\* open_browser_func, whatever the serving thread has done by then
TimerFire ==
    /\ dash.timers > 0
    /\ dash' = [dash EXCEPT !.timers = @ - 1,
                            !.browserOpens = @ + 1,
                            !.openedBeforeListen =
                                @ \/ dash.listener # "listening"]
    /\ UNCHANGED <<schema, lastTrend,
                   entry, pc, csvExt, kpis, engine, genIdx, genState,
                   yielded, retrLog, results, crash, lastInsight, lastViz,
                   calls, datetimeCol, db, proposal, insights, failures,
                   ncalls>>

----------------------------------------------------------------------------
(* Callers of single agents.                                               *)

\* mappings a caller passes to build_dashboard_layout
Mappings ==
    {EmptyMapping,
     [EmptyMapping EXCEPT !["A"] = Entry("text", "fig")],
     [EmptyMapping EXCEPT !["A"] = Entry("failed", "None"),
                          !["B"] = Entry("text", "fig")]}

\* a caller calls build_dashboard_layout(mapping)
DashCallBuild ==
    /\ entry = "dashboard" /\ pc = "call" /\ ncalls < MaxCalls
    /\ \E m \in Mappings : dash' = build_dashboard_layout(dash, m)
    /\ ncalls' = ncalls + 1
    /\ UNCHANGED <<schema, lastTrend,
                   entry, pc, csvExt, kpis, engine, genIdx, genState,
                   yielded, retrLog, results, crash, lastInsight, lastViz,
                   calls, datetimeCol, db, proposal, insights, failures>>

\* a caller calls run_dashboard(open_browser) and survives its RuntimeError
DashCallRun ==
    /\ entry = "dashboard" /\ pc = "call" /\ ncalls < MaxCalls
    /\ \E open_browser \in BOOLEAN :
         LET d == run_dashboard(dash, open_browser) IN
         /\ dash' = d
         /\ pc' = IF d.runResult = "RuntimeError" THEN "call" ELSE "app_run"
    /\ ncalls' = ncalls + 1
    /\ UNCHANGED <<schema, lastTrend,
                   entry, csvExt, kpis, engine, genIdx, genState, yielded,
                   retrLog, results, crash, lastInsight, lastViz, calls,
                   datetimeCol, db, proposal, insights, failures>>

\* a caller calls generate_insights_for_kpi(kpi, kpi_data)
InsightCall ==
    /\ entry = "insight" /\ pc = "call" /\ ncalls < MaxCalls
    /\ \E kpi \in {e \in KpiElems : e.isDict}, data \in {"empty", "rows"},
          hasDt \in BOOLEAN, failAt \in FailPoints :
         LET ins == generate_insights_for_kpi(kpi, data, datetimeCol, hasDt,
                                              failAt)
         IN /\ lastInsight' = [keys |-> ins.keys, summary |-> ins.summary,
                               ran |-> ins.ran, llm |-> ins.llm,
                               raised |-> ins.raised, data |-> data,
                               kpi |-> kpi, hasDt |-> hasDt,
                               failAt |-> failAt, called |-> TRUE]
            /\ calls' = [calls EXCEPT
                           !.sites = @ \cup Sites(ins.llm, 0, 0, 0)]
            /\ crash' = ins.raised
            /\ pc' = IF ins.raised # "" THEN "crashed" ELSE "call"
    /\ ncalls' = ncalls + 1
    /\ UNCHANGED <<schema, lastTrend,
                   entry, csvExt, kpis, engine, genIdx, genState, yielded,
                   retrLog, results, lastViz, dash, datetimeCol, db,
                   proposal, insights, failures>>

\* a caller calls create_visualization(kpi_name, kpi_desc, summary, data)
VizCall ==
    /\ entry = "viz" /\ pc = "call" /\ ncalls < MaxCalls
    /\ \E kpi_name \in Names, summary \in {"text", "failed"},
          sugg \in SuggOutcomes, codeOut \in CodeOutcomes :
         LET viz == create_visualization(kpi_name, summary, sugg, codeOut)
         IN /\ lastViz' = [raised |-> viz.raised, fig |-> viz.fig,
                           suggCalls |-> viz.suggCalls,
                           codeCalls |-> viz.codeCalls, execs |-> viz.execs,
                           request |-> viz.request, first |-> viz.first,
                           sugg |-> sugg, codeOut |-> codeOut,
                           called |-> TRUE]
            /\ calls' = [calls EXCEPT
                           !.sites = @ \cup Sites(0, viz.suggCalls,
                                                  viz.codeCalls, viz.execs)]
            /\ crash' = viz.raised
            /\ pc' = IF viz.raised # "" THEN "crashed" ELSE "call"
    /\ ncalls' = ncalls + 1
    /\ UNCHANGED <<schema, lastTrend,
                   entry, csvExt, kpis, engine, genIdx, genState, yielded,
                   retrLog, results, lastInsight, dash, datetimeCol, db,
                   proposal, insights, failures>>

\* a caller constructs SchemaParsingAgent(file_path): __init__, lines 15-19
SchemaConstruct ==
    /\ entry = "schema" /\ pc = "construct"
    /\ \E readOk \in BOOLEAN :
         IF ~Supported(csvExt)
         THEN crash' = "ValueError" /\ pc' = "crashed" /\ schema' = schema
         ELSE IF ~readOk
         THEN crash' = "ReadError" /\ pc' = "crashed" /\ schema' = schema
         ELSE /\ schema' = [schema EXCEPT !.loaded = TRUE]
              /\ crash' = crash
              /\ pc' = "parse"
    /\ UNCHANGED <<lastTrend,
                   entry, csvExt, kpis, engine, genIdx, genState, yielded,
                   retrLog, results, lastInsight, lastViz, calls, dash,
                   datetimeCol, db, proposal, insights, failures, ncalls>>

\* the caller calls parse_schema()
SchemaParse ==
    /\ entry = "schema" /\ pc = "parse"
    /\ schema' = [schema EXCEPT !.parsed = TRUE,
                                !.fields = parse_schema(schema.columns)]
    /\ pc' = "annotate"
    /\ UNCHANGED <<lastTrend,
                   entry, csvExt, kpis, engine, genIdx, genState, yielded,
                   retrLog, results, crash, lastInsight, lastViz, calls,
                   dash, datetimeCol, db, proposal, insights, failures,
                   ncalls>>

\* the caller calls annotate_schema()
SchemaAnnotate ==
    /\ entry = "schema" /\ pc = "annotate"
    /\ LET a == annotate_schema(schema.fields) IN
         /\ schema' = [schema EXCEPT !.annotated = TRUE,
                                     !.fields = a.fields,
                                     !.raised = a.raised]
         /\ crash' = a.raised
         /\ pc' = IF a.raised = "" THEN "ready" ELSE "crashed"
    /\ UNCHANGED <<lastTrend,
                   entry, csvExt, kpis, engine, genIdx, genState, yielded,
                   retrLog, results, lastInsight, lastViz, calls, dash,
                   datetimeCol, db, proposal, insights, failures, ncalls>>

\* the caller calls schema_api(), before or after annotate_schema()
SchemaApiCall ==
    /\ entry = "schema" /\ pc \in {"annotate", "ready"}
    /\ schema' = [schema EXCEPT !.api = schema_api(schema.fields),
                                !.apiAt = IF schema.annotated
                                          THEN "annotated" ELSE "parsed"]
    /\ UNCHANGED <<lastTrend,
                   entry, pc, csvExt, kpis, engine, genIdx, genState,
                   yielded, retrLog, results, crash, lastInsight, lastViz,
                   calls, dash, datetimeCol, db, proposal, insights,
                   failures, ncalls>>


\* a caller calls detect_trends(data, field, window) on a table that has
\* the datetime column and the field, or lacks one of them
TrendCall ==
    /\ entry = "trend" /\ pc = "call"
    /\ \E pre \in {"dt_col_missing", "field_missing", "ok"},
          window \in 1..MaxWindow :
         \E rows \in IF pre = "ok" /\ datetimeCol THEN TrendTables
                     ELSE {<<>>} :
            lastTrend' = [called |-> TRUE,
                          pre |-> TrendPre(datetimeCol, pre),
                          window |-> window,
                          res |-> detect_trends(datetimeCol, pre, rows,
                                                window)]
    /\ pc' = "done"
    /\ UNCHANGED <<schema, entry, csvExt, kpis, engine, genIdx, genState,
                   yielded, retrLog, results, crash, lastInsight, lastViz,
                   calls, dash, datetimeCol, db, proposal, insights,
                   failures, ncalls>>

----------------------------------------------------------------------------
Next ==
    \/ MainParseSchema
    \/ MainSuggestKpis
    \/ MainCreateDb
    \/ GenNext
    \/ MainInsights
    \/ MainVisualize
    \/ MainAssemble
    \/ AppRun
    \/ ServerStop
    \/ TimerFire
    \/ DashCallBuild
    \/ DashCallRun
    \/ InsightCall
    \/ VizCall
    \/ SchemaConstruct
    \/ SchemaParse
    \/ SchemaAnnotate
    \/ SchemaApiCall
    \/ TrendCall

Spec == Init /\ [][Next]_vars

----------------------------------------------------------------------------
(* Properties.                                                             *)

\* the kpis argument is a list of KPI records (dicts), as its type says
AllDicts == kpis.type = "list" /\ \A i \in DOMAIN kpis.items : kpis.items[i].isDict

\* C1: get_data_for_all_kpis yields exactly one (kpi_name, result) pair per
\* KPI record, in the order of the list, whatever SQL executions fail: the
\* i-th pair carries the name of the i-th record, a record whose retrieval
\* failed yields None, the generator never raises, and when it is exhausted
\* it has yielded for every record.
C1_OnePairPerKpiInOrder ==
    (entry \in {"main", "retrieval"} /\ AllDicts) =>
        /\ genState # "raised"
        /\ Len(yielded) = genIdx /\ Len(retrLog) = genIdx
        /\ genIdx <= Len(kpis.items)
        /\ \A i \in DOMAIN yielded :
              /\ yielded[i][1] = GetKPI(kpis.items[i], UnnamedKpi)
              /\ retrLog[i].caught # "" => yielded[i][2] = "None"
        /\ genState = "done" => Len(yielded) = Len(kpis.items)

\* C1 witness: the first of two KPIs failed in SQL execution and yielded
\* None, the second yielded rows, and the generator is exhausted
C1_Witness ==
    /\ entry = "retrieval" /\ genState = "done" /\ Len(yielded) = 2
    /\ retrLog[1].caught = "SQLError" /\ yielded[1] = <<"A", "None">>
    /\ yielded[2] = <<"B", "rows">>

\* C2 (as claimed): the generator never propagates an exception to its
\* consumer, whatever JSON values the parsed KPI list holds.
C2_NeverPropagates ==
    (entry \in {"main", "retrieval"} /\ kpis.type = "list") =>
        genState # "raised"

\* the exceptions of the failures C3 lists: SQL error, insight computation
\* exception, unparseable chart suggestion, chart-code execution error
ListedFailures == {"SQLError", "InsightError", "JSONDecodeError", "ExecError"}
\* main is inside its for loop
InLoop == entry = "main" /\ pc \in {"loop_next", "loop_body", "loop_viz"}

\* steps main's loop still has to take at most: three per element not yet
\* retrieved, plus what is left of the body of the current one
LoopMeasure ==
    3 * (Len(kpis.items) - genIdx)
    + (CASE pc = "loop_body" -> 2 [] pc = "loop_viz" -> 1 [] OTHER -> 0)

\* C3, state part: none of the listed failures ends main; inside the loop
\* main is never stuck; when the loop is left normally every element of the
\* list was retrieved and went through the loop body.
C3_Inv ==
    entry = "main" =>
        /\ crash \notin ListedFailures
        /\ (failures # {} /\ crash = "") => pc # "crashed"
        /\ InLoop => (ENABLED Next /\ LoopMeasure >= 0)
        /\ pc = "assemble" =>
              /\ genState = "done"
              /\ Len(yielded) = Len(kpis.items)

\* C3, step part: every step inside the loop brings its end nearer, and a
\* step of main changes no entry of the mapping other than the one under
\* the name of the KPI being processed.
C3_Step ==
    entry = "main" =>
        /\ InLoop => (~InLoop' \/ LoopMeasure' < LoopMeasure)
        /\ \A k \in Keys :
              results'[k] # results[k] =>
                  /\ pc = "loop_viz"
                  /\ k = yielded[Len(yielded)][1]

\* C3: a listed failure while processing one KPI does not halt main's
\* loop: later KPIs are retrieved and processed, the loop terminates (it is
\* never stuck and a bounded measure falls with every step), and only the
\* mapping entry under the processed KPI's name changes.
C3_FailureIsolated == []C3_Inv /\ [][C3_Step]_vars

\* C3 witness: the first KPI met an insight failure, an unparseable chart
\* suggestion; the second KPI was then processed and stored, and the loop
\* ended.
C3_Witness ==
    /\ entry = "main" /\ pc = "assemble" /\ Len(yielded) = 2
    /\ results["A"] = Entry("failed", "None")
    /\ results["B"] = Entry("text", "fig")
    /\ yielded[1][1] = "A"

\* C4 (as claimed): when main builds the dashboard the mapping holds
\* exactly one entry for each KPI record whose retrieval returned a
\* non-empty table, and none for the others.
C4_OneCardPerNonEmptyResult ==
    (entry = "main" /\ pc = "assemble") =>
        Cardinality({k \in Keys : results[k].present})
            = Cardinality({i \in DOMAIN yielded : yielded[i][2] = "rows"})

\* C5, state part: while build_dashboard_layout has not completed, every
\* run_dashboard call was refused with RuntimeError, and no timer was
\* started and no listener was bound.
C5_Inv ==
    ~dash.setupLayoutDone =>
        /\ dash.refused = dash.runs
        /\ dash.runs > 0 => dash.runResult = "RuntimeError"
        /\ dash.timersStarted = 0 /\ dash.timers = 0
        /\ dash.listens = 0 /\ dash.listener = "off"
        /\ pc \notin {"app_run", "serving"}

\* C5, step part: once set the built flag stays set, and a run_dashboard
\* call made then is not refused.
C5_Step ==
    dash.setupLayoutDone =>
        /\ dash'.setupLayoutDone
        /\ dash'.refused = dash.refused
        /\ dash'.runs > dash.runs => dash'.runResult = "app_run"

\* C5: run_dashboard before any build_dashboard_layout raises RuntimeError
\* and starts neither the timer nor the listener; after a build the flag
\* stays set and every later run_dashboard passes the check.
C5_ServeBeforeBuildIsFatal == []C5_Inv /\ [][C5_Step]_vars

\* C5 witness: a run_dashboard call was refused, then the layout was built
\* and a later run_dashboard(open_browser=True) went on to serve
C5_Witness ==
    /\ entry = "dashboard" /\ dash.refused = 1 /\ dash.setupLayoutDone
    /\ dash.runs = 2 /\ dash.runResult = "serving" /\ dash.timersStarted = 1

\* C6 (as claimed): on an agent without an engine the retrieval batch
\* yields no pair (the configuration error surfaces instead) and makes no
\* model call.
C6_MissingEngineIsFatal ==
    (entry = "retrieval" /\ ~engine) =>
        (yielded = <<>> /\ calls.sqlgen = 0)

\* C7: a response text that is no valid JSON makes suggest_kpis return
\* None without an exception, and the proposal model call is made once.
C7_InvalidJsonGivesNone ==
    entry = "main" =>
        /\ proposal.llm <= 1
        /\ proposal.text = "invalid" =>
              /\ proposal.returned /\ crash = ""
              /\ kpis = PyNone
              /\ proposal.llm = 1

\* C7 witness: the model answered with text that is no JSON
C7_Witness ==
    entry = "main" /\ proposal.text = "invalid" /\ proposal.llm = 1

\* suggest_kpis returned None or an empty list (or an empty dict)
NoKpis ==
    /\ proposal.returned
    /\ \/ kpis.type = "None"
       \/ kpis.type \in {"list", "dict"} /\ Len(kpis.items) = 0

\* C8: when the proposal gives no KPIs main ends normally, and it has
\* created no engine and no table, made no SQL or further model call,
\* built no dashboard, started no listener, and takes no further step.
C8_NoKpisEndsRun ==
    (entry = "main" /\ NoKpis) =>
        /\ pc = "done" /\ crash = ""
        /\ db = NoDb /\ ~engine
        /\ calls = NoCalls /\ proposal.llm = 1
        /\ yielded = <<>> /\ results = EmptyMapping
        /\ dash = NewDashboard
        /\ ~ENABLED Next

\* C8 witness: the model answered with an empty JSON array and main ended
C8_Witness ==
    entry = "main" /\ proposal.returned /\ kpis = PyList(<<>>) /\ pc = "done"

\* C9: generate_insights_for_kpi on a table with zero rows returns a
\* bundle whose only key is the "no data" summary, runs no analysis step
\* and makes no model call.
C9_EmptyTableShortCircuits ==
    (lastInsight.called /\ lastInsight.data = "empty") =>
        /\ lastInsight.keys = {"summary"}
        /\ lastInsight.summary.kind = "no_data"
        /\ lastInsight.summary.kpi = GetKPI(lastInsight.kpi, UnknownKpi)
        /\ lastInsight.ran = {}
        /\ lastInsight.llm = 0
        /\ lastInsight.raised = ""

\* C9 witness: the call was made on an empty table, with a failure armed
\* for the first analysis step
C9_Witness ==
    /\ lastInsight.called /\ lastInsight.data = "empty"
    /\ lastInsight.failAt = "descriptive_stats"

\* the step the environment makes raise is one the call runs
FailureArmed ==
    /\ lastInsight.failAt # "none"
    /\ lastInsight.failAt = "trends" => (datetimeCol /\ lastInsight.hasDt)

\* C10: on a non-empty table generate_insights_for_kpi never raises; when a
\* step of the computation raises, the bundle's summary names the KPI and
\* the failure, and main's loop goes on.
C10_InsightNeverRaises ==
    /\ (lastInsight.called /\ lastInsight.data = "rows") =>
          /\ lastInsight.raised = "" /\ crash = ""
          /\ FailureArmed =>
                /\ lastInsight.keys = {"summary"}
                /\ lastInsight.summary.kind = "failed"
                /\ lastInsight.summary.kpi
                      = GetKPI(lastInsight.kpi, UnknownKpi)
                /\ lastInsight.summary.reason = lastInsight.failAt
          /\ ~FailureArmed => lastInsight.summary.kind = "text"
    /\ (entry = "main" /\ "insight" \in failures) =>
          /\ crash # "InsightError"
          /\ pc = "loop_viz" => (insights = "failed" /\ crash = "")

\* C10 witness: the summary model call raised on a non-empty table for KPI
\* "A" and the caller got a bundle back
C10_Witness ==
    /\ entry = "insight" /\ pc = "call" /\ lastInsight.called
    /\ lastInsight.data = "rows" /\ lastInsight.failAt = "summary_llm"
    /\ lastInsight.kpi = KpiDict("A") /\ lastInsight.summary.kpi = "A"

----------------------------------------------------------------------------
(* C11: create_visualization issues the code-generation model call if and  *)
(* only if the chart-suggestion response parses to a JSON object or to a   *)
(* non-empty JSON array; when the response is no JSON, or is JSON of       *)
(* another shape (a scalar, an empty array), there is no code-generation   *)
(* call, no execution of generated code, and the call returns no chart     *)
(* without raising.                                                        *)

\* the response gives at least one suggestion
HasSuggestions ==
    \/ lastViz.sugg.kind = "object"
    \/ lastViz.sugg.kind = "array" /\ Len(lastViz.sugg.specs) > 0

\* the response was received and gives no suggestion
NoSuggestions ==
    \/ lastViz.sugg.kind \in {"invalid", "scalar"}
    \/ lastViz.sugg.kind = "array" /\ Len(lastViz.sugg.specs) = 0

C11_CodeCallIffSuggestions ==
    lastViz.called =>
        /\ lastViz.codeCalls = 1 <=> HasSuggestions
        /\ lastViz.codeCalls \in {0, 1}
        /\ NoSuggestions =>
              /\ lastViz.codeCalls = 0
              /\ lastViz.execs = 0
              /\ lastViz.fig = "None"
              /\ lastViz.raised = ""
              /\ pc # "crashed"

\* a call answered with the empty array made no code-generation call, after
\* an earlier call of the same caller had made one
C11_Witness ==
    /\ lastViz.called
    /\ lastViz.sugg.kind = "array" /\ Len(lastViz.sugg.specs) = 0
    /\ lastViz.codeCalls = 0 /\ lastViz.raised = ""
    /\ "code_llm" \in calls.sites

----------------------------------------------------------------------------
(* C12: generate_plotly_code returns a chart only when the generated       *)
(* snippet ran to its end and bound fig to a figure; when fig is missing,  *)
(* is no figure, or the snippet raised, it returns no chart and raises     *)
(* nothing to its caller.                                                  *)

\* generate_plotly_code was called and its model call returned a snippet
SnippetExecuted == lastViz.called /\ lastViz.codeCalls = 1 /\ lastViz.execs = 1

C12_ChartOnlyFromValidFig ==
    /\ (lastViz.called /\ lastViz.fig = "fig") =>
          SnippetExecuted /\ lastViz.codeOut = "fig"
    /\ (SnippetExecuted
          /\ lastViz.codeOut \in {"exec_raise", "no_fig", "wrong_type"}) =>
          lastViz.fig = "None" /\ lastViz.raised = "" /\ pc # "crashed"

\* the snippet bound fig to something that is no figure, and the call
\* returned no chart
C12_Witness ==
    /\ SnippetExecuted
    /\ lastViz.codeOut = "wrong_type"
    /\ lastViz.fig = "None" /\ lastViz.raised = ""

----------------------------------------------------------------------------
(* C13: annotate_schema gives every field a role that depends only on its  *)
(* name and semantic type, the name first: a field named id or ending in   *)
(* _id is an identifier whatever its type, any other field is a metric     *)
(* when its semantic type is numerical and a dimension otherwise; and the  *)
(* metrics, dimensions and identifiers lists schema_api returns after      *)
(* annotate_schema are pairwise disjoint and together hold every field of  *)
(* all_fields.                                                             *)

\* the label is the text id, or a text ending in _id, in any letter case
NamedId(label) ==
    /\ label.isStr
    /\ \/ lower(label.chars) = <<"i", "d">>
       \/ /\ Len(label.chars) >= 3
          /\ lower(SubSeq(label.chars, Len(label.chars) - 2,
                          Len(label.chars))) = <<"_", "i", "d">>

\* the role the rule gives a field
ExpectedRole(f) ==
    IF NamedId(f.field_name) THEN "identifier"
    ELSE IF f.semantic_type = "numerical" THEN "metric"
    ELSE "dimension"

\* the elements of a list
Range(s) == {s[i] : i \in 1..Len(s)}

C13_RolesPartitionFields ==
    schema.annotated =>
        /\ schema.raised = ""
        /\ \A i \in 1..Len(schema.fields) :
              schema.fields[i].role = ExpectedRole(schema.fields[i])
        /\ schema.apiAt = "annotated" =>
              LET api == schema.api IN
              /\ Range(api.metrics) \cap Range(api.dimensions) = {}
              /\ Range(api.metrics) \cap Range(api.identifiers) = {}
              /\ Range(api.dimensions) \cap Range(api.identifiers) = {}
              /\ Range(api.metrics) \cup Range(api.dimensions)
                    \cup Range(api.identifiers) = Range(api.all_fields)

----------------------------------------------------------------------------
(* C14: a path whose extension is none of .csv, .xls, .xlsx fails with the *)
(* unsupported-extension ValueError while the schema agent is constructed, *)
(* before anything else happens: no data is loaded, no schema is parsed,   *)
(* no model call is made, no database is created, no dashboard is built.   *)

\* the running code constructs a SchemaParsingAgent on a path whose
\* extension _load_data does not know
UnsupportedPath ==
    /\ entry \in {"main", "schema"}
    /\ csvExt \notin {".csv", ".xls", ".xlsx"}

C14_UnsupportedExtensionFailsFirst ==
    UnsupportedPath =>
        /\ pc \in {"parse_schema", "construct", "crashed"}
        /\ pc = "crashed" => crash = "ValueError"
        /\ ~schema.loaded /\ ~schema.parsed /\ ~schema.annotated
        /\ ~schema.api.called
        /\ proposal.llm = 0 /\ calls = NoCalls
        /\ db = NoDb /\ ~engine
        /\ dash = NewDashboard /\ results = EmptyMapping

\* main() has ended with the ValueError of an unsupported extension
C14_Witness ==
    /\ entry = "main" /\ UnsupportedPath
    /\ pc = "crashed" /\ crash = "ValueError"

----------------------------------------------------------------------------
(* C15: detect_trends returns None whenever fewer than window + 1 rows are *)
(* left after the rows with missing values are dropped; whenever at least  *)
(* window + 1 rows are left (window >= 1) it returns a trend record, whose *)
(* label is stable when the fitted slope is exactly zero, increasing when  *)
(* the slope is positive and decreasing when it is negative.               *)

\* detect_trends got past the column checks and dropped the incomplete rows
RowsCounted == lastTrend.called /\ lastTrend.pre = "ok"

C15_TrendLabelFollowsSlope ==
    /\ (lastTrend.called /\ lastTrend.res.kept < lastTrend.window + 1) =>
          lastTrend.res.isNone
    /\ (RowsCounted /\ lastTrend.window >= 1
          /\ lastTrend.res.kept >= lastTrend.window + 1) =>
          /\ ~lastTrend.res.isNone
          /\ lastTrend.res.slope.den > 0
          /\ lastTrend.res.slope.num = 0 => lastTrend.res.trend = "stable"
          /\ lastTrend.res.slope.num > 0 => lastTrend.res.trend = "increasing"
          /\ lastTrend.res.slope.num < 0 => lastTrend.res.trend = "decreasing"

\* three complete rows and window 2 gave two equal rolling means: the
\* slope is zero and the label is stable
C15_Witness ==
    /\ RowsCounted
    /\ lastTrend.window = 2 /\ lastTrend.res.kept = 3
    /\ lastTrend.res.slope.num = 0
    /\ lastTrend.res.trend = "stable"

----------------------------------------------------------------------------
(* C16: there are no retries.  In one run of main() the KPI-proposal model *)
(* call is made exactly once; for each KPI record the SQL-generation model *)
(* call is made exactly once and the SQL execution is attempted at most    *)
(* once; no call is repeated after it failed.                              *)

\* main() is past its call of suggest_kpis() and has not ended
PastProposal ==
    /\ entry = "main"
    /\ pc \in {"create_db", "loop_next", "loop_body", "loop_viz", "assemble",
               "app_run", "serving"}

\* the generator of a run, or of a caller iterating it, has these logs
Retrieving == entry \in {"main", "retrieval"}

\* the statement as claimed: exactly one SQL-generation call for every
\* record the generator has dealt with
C16_EachCallExactlyOnce ==
    /\ entry = "main" => proposal.llm <= 1
    /\ PastProposal => proposal.llm = 1
    /\ Retrieving =>
          /\ Len(retrLog) = genIdx
          /\ \A i \in 1..Len(retrLog) :
                retrLog[i].llm = 1 /\ retrLog[i].exec <= 1

\* C16 as it holds: every call is made at most once.  The KPI-proposal
\* call is made exactly once in a run that gets to it; a record the
\* generator has dealt with had its SQL-generation call exactly once,
\* unless building the prompt raised and no call was made, and its query
\* was executed at most once and only after that call; a failed call is
\* followed by no other call for the record.
C16_NoCallRepeated ==
    /\ entry = "main" => proposal.llm <= 1
    /\ PastProposal => proposal.llm = 1
    /\ Retrieving =>
          /\ Len(retrLog) = genIdx
          /\ kpis.type = "list" => genIdx <= Len(kpis.items)
          /\ calls.sqlgen <= genIdx /\ calls.sqlexec <= calls.sqlgen
          /\ \A i \in 1..Len(retrLog) :
                /\ retrLog[i].llm <= 1 /\ retrLog[i].exec <= 1
                /\ retrLog[i].llm = 0 =>
                      retrLog[i].caught = "TypeError" /\ retrLog[i].exec = 0
                /\ retrLog[i].caught = "ModelError" =>
                      retrLog[i].llm = 1 /\ retrLog[i].exec = 0
                /\ retrLog[i].caught = "SQLError" =>
                      retrLog[i].llm = 1 /\ retrLog[i].exec = 1

\* a run whose first record's query failed once and whose second record's
\* prompt could not be built
C16_Witness ==
    /\ entry = "main" /\ proposal.llm = 1
    /\ Len(retrLog) = 2
    /\ retrLog[1].caught = "SQLError" /\ retrLog[1].exec = 1
    /\ retrLog[2].llm = 0

----------------------------------------------------------------------------
(* C17: in a run of main(), main_table is filled from the input file once, *)
(* never again, and before the first SQL query of a KPI is executed: no    *)
(* KPI query runs against a store without the table.                       *)

\* main() is in or past its loop over the KPI records
LoopReached ==
    /\ entry = "main"
    /\ pc \in {"loop_next", "loop_body", "loop_viz", "assemble", "app_run",
               "serving"}

C17_TableFilledOnceBeforeQueries ==
    entry = "main" =>
        /\ db.loads <= 1 /\ db.engines <= 1
        /\ LoopReached => db.loads = 1 /\ engine
        /\ (genIdx > 0 \/ calls.sqlgen > 0 \/ calls.sqlexec > 0) =>
              db.loads = 1 /\ engine
        /\ \A i \in 1..Len(retrLog) : retrLog[i].exec > 0 => db.loads = 1

\* two KPI queries were executed, after the one filling of the table
C17_Witness ==
    /\ entry = "main"
    /\ calls.sqlexec = 2
    /\ db.loads = 1

----------------------------------------------------------------------------
(* C18: the browser is opened only by the timer a run_dashboard call with  *)
(* open_browser set has started, once per such call, and only when the web *)
(* listener is already accepting connections, however the timer thread and *)
(* the serving thread interleave; a call with the flag unset opens none.   *)

C18_BrowserOpensOnceAfterListen ==
    /\ dash.browserOpens + dash.timers = dash.timersStarted
    /\ dash.timersStarted <= dash.runs - dash.refused
    /\ ~dash.openedBeforeListen

----------------------------------------------------------------------------
(* C19: the code-generation request of create_visualization is driven by   *)
(* the first chart suggestion and by no later one: a call that differs     *)
(* only in the suggestions after the first issues the same request, and    *)
(* the first suggestion is what the code-generation step is given.         *)

\* responses whose first suggestion is the one of the last call
SameFirstSuggestion ==
    {other \in SuggOutcomes :
        /\ other.kind \in {"object", "array"}
        /\ Len(other.specs) >= 1
        /\ other.specs[1] = lastViz.sugg.specs[1]}

C19_FirstSuggestionDrivesRequest ==
    (lastViz.called /\ lastViz.codeCalls = 1) =>
        /\ \A other \in SameFirstSuggestion :
              create_visualization(lastViz.request.kpi,
                                   lastViz.request.summary, other,
                                   lastViz.codeOut).request = lastViz.request
        /\ lastViz.first = lastViz.sugg.specs[1]
        /\ lastViz.request.chart = lastViz.first

====
